---- MODULE Spec2Model ----
(***************************************************************************)
(* Client-side session, campaign status polling and owner dashboard        *)
(* fetching of contact-page-submitter-v2 (frontend).                       *)
(*                                                                         *)
(*   SpecSession : AuthProvider + ApiService (useCampaignWebSocket.js      *)
(*                 lines 38-622) and fetchAPI's 401 path                   *)
(*   SpecPoll    : FormSubmitterPage status polling (Header.jsx 1104-1156) *)
(*   SpecDash    : OwnerDashboard.fetchDashboardData / fetchAPI            *)
(*                                                                         *)
(* A JavaScript handler runs to its next await without interleaving, so    *)
(* every action is one such run: a call up to its first await, or the      *)
(* continuation that a response resumes (state updates and the effects     *)
(* they re-run included).                                                  *)
(***************************************************************************)
EXTENDS Integers, Sequences, FiniteSets, TLC

\* ------------------------------------------------------------------------
\* Bounds of the model
\* ------------------------------------------------------------------------
MaxPending == 1

\* campaigns one page submits, status requests in flight at once, and the
\* value past which the failure counter is not followed
MaxCampaigns == 2
MaxInFlight == 2
MaxErrors == 12

\* batches one dashboard starts, and the step of its clock in ms
MaxBatches == 3
ClockStep == 500

\* channel events of one kind (opens, pings, messages) in one behaviour
MaxEvents == 2

\* length a chain of router redirects is followed to
MaxChain == 4

\* ------------------------------------------------------------------------
\* JavaScript values
\* ------------------------------------------------------------------------
\* null / undefined / a key that localStorage does not hold
None == "null"

\* a || b on strings
Or(a, b) == IF a \notin {None, ""} THEN a ELSE b

Keys == {"access_token", "user_info", "user_id"}

Tokens == {"t1", "t2"}

NoUser == [id |-> None, role |-> None]

\* the user records the backend of this deployment serves
VARIABLE backend

\* user payloads the backend can send; the second one carries no id
Users == {[id |-> "u1", role |-> "user"], [id |-> None, role |-> "owner"]}

\* a payload whose role is none of user, admin, owner
OddUsers == {[id |-> "u1", role |-> "manager"]}

\* JSON.stringify(response.user): undefined is stored as the string "undefined"
JSONstringify(u) ==
    IF u = NoUser THEN "undefined"
    ELSE IF u.id = None THEN "{role:owner}"
    ELSE IF u.role = "manager" THEN "{id:u1,role:manager}"
    ELSE "{id:u1,role:user}"

EmptyStorage == [k \in Keys |-> None]

\* ------------------------------------------------------------------------
\* Server answers and the errors they become
\* ------------------------------------------------------------------------
NoData == [present |-> FALSE, detail |-> None, message |-> None]

DetailBody == [present |-> TRUE, detail |-> "Incorrect email or password", message |-> None]

\* body of an error response: absent, {}, {detail}, {message}
ErrorBodies ==
    { NoData,
      [present |-> TRUE, detail |-> None, message |-> None],
      DetailBody,
      [present |-> TRUE, detail |-> None, message |-> "Unauthorized"] }

ErrorStatuses == {401, 403, 409, 500}

Answer(kind, status, data, token, u) ==
    [kind |-> kind, status |-> status, data |-> data, access_token |-> token, user |-> u]

\* error responses: every body with 401, a body or none with the other statuses
HttpErrors ==
    { Answer("http", 401, d, None, NoUser) : d \in ErrorBodies }
    \cup { Answer("http", s, d, None, NoUser) :
             s \in ErrorStatuses \ {401}, d \in {NoData, DetailBody} }

NetworkError == Answer("network", 0, NoData, None, NoUser)

Failures == HttpErrors \cup {NetworkError}

\* 2xx bodies of /api/auth/login and /api/auth/register
AuthBodies == { Answer("ok", 200, NoData, t, u) : t \in Tokens \cup {None}, u \in backend \cup {NoUser} }

\* 2xx bodies of /api/auth/me
MeBodies == { Answer("ok", 200, NoData, None, u) : u \in backend }

\* 2xx body of a request whose payload the session does not read
PlainOk == Answer("ok", 200, NoData, None, NoUser)

\* 2xx with an empty body
EmptyOk == Answer("ok", 204, NoData, None, NoUser)

\* answers to the requests of the other callers
OtherAnswers ==
    {PlainOk, NetworkError}
    \cup { Answer("http", s, d, None, NoUser) : s \in {401, 500}, d \in {NoData, DetailBody} }

NoError == [code |-> None, hasResponse |-> FALSE, status |-> 0, data |-> NoData, message |-> None]

\* the error axios rejects with
AxiosError(ans) ==
    IF ans.kind = "network"
    THEN [code |-> "ERR_NETWORK", hasResponse |-> FALSE, status |-> 0, data |-> NoData,
          message |-> "Network Error"]
    ELSE [code |-> "ERR_BAD_RESPONSE", hasResponse |-> TRUE, status |-> ans.status,
          data |-> ans.data, message |-> "Request failed"]

\* new Error(msg)
NewError(msg) ==
    [code |-> None, hasResponse |-> FALSE, status |-> 0, data |-> NoData, message |-> msg]

\* catch block of makeRequest (lines 347-354): an error response with a body is
\* rethrown as a plain Error carrying only the body's detail / message; the
\* status and the response are gone
MakeRequestError(ans) ==
    LET error == AxiosError(ans)
    IN  IF error.hasResponse /\ error.data.present
        THEN NewError(Or(error.data.detail, Or(error.data.message, "Request failed")))
        ELSE error

\* `${action.charAt(0).toUpperCase() + action.slice(1)} service not found. ...`
ServiceNotFound(action) ==
    IF action = "login"
    THEN "Login service not found. Please check the server configuration."
    ELSE "Register service not found. Please check the server configuration."

\* `${action.charAt(0).toUpperCase() + action.slice(1)} failed. Please try again.`
FailedTryAgain(action) ==
    IF action = "login" THEN "Login failed. Please try again."
    ELSE "Register failed. Please try again."

InvalidInput(action) ==
    IF action = "login" THEN "Invalid input. Please check your email and password."
    ELSE "Invalid input. Please check your information."

\* detail.includes(word), on the details the model's bodies carry
Includes(detail, word) ==
    \/ word = "verify" /\ detail \in {"Please verify your email"}
    \/ word = "inactive" /\ detail \in {"Account is inactive"}

Msg401 == "Invalid email or password. Please check your credentials."

getErrorMessage(error, action) ==
    IF error.code \in {"ERR_NETWORK", "ECONNABORTED"}
    THEN "Cannot connect to server. Please ensure the backend is running on http://127.0.0.1:8000"
    ELSE IF error.hasResponse
    THEN CASE error.status = 401 -> Msg401
           [] error.status = 403 ->
                IF error.data.detail # None
                THEN IF Includes(error.data.detail, "verify")
                     THEN "Please verify your email to login."
                     ELSE IF Includes(error.data.detail, "inactive")
                     THEN "Your account is inactive. Please contact support."
                     ELSE error.data.detail
                ELSE "Your account is restricted."
           [] error.status = 404 -> ServiceNotFound(action)
           [] error.status = 409 -> "This email is already registered. Please login instead."
           [] error.status = 422 ->
                IF error.data.detail # None THEN error.data.detail ELSE InvalidInput(action)
           [] error.status = 500 -> "Server error. Please try again in a moment."
           [] OTHER -> Or(error.data.detail, Or(error.data.message, FailedTryAgain(action)))
    ELSE IF error.message \notin {None, ""} THEN error.message
    ELSE FailedTryAgain(action)

\* ------------------------------------------------------------------------
\* State
\* ------------------------------------------------------------------------
VARIABLES
    localStorage,   \* durable storage: key -> value or None
    user,           \* AuthProvider state `user` (NoUser = null)
    loading,        \* AuthProvider state `loading`
    loginLoading,   \* AuthProvider state `loginLoading`
    href,           \* target of a hard navigation (window.location.href = ...), None if none
    mountPc,        \* checkAuthStatus of this page load: "start", "checking", "done"
    pending,        \* session requests in flight: operation -> how many
    last            \* the session operation that completed last: what was answered,
                    \* what it returned, what its caller saw when a rejection reached it

sessionVars == <<localStorage, user, loading, loginLoading, href, mountPc, pending, last>>

\* FormSubmitterPage (Header.jsx lines 1080-1089)
VARIABLES
    processingCampaignId,  \* state `processingCampaignId` (0 = null)
    campaignStatus,        \* state `campaignStatus` (NoStatus = null)
    statusCheckErrors,     \* state `statusCheckErrors`
    statusInterval,        \* the interval of the last effect run and what its callback closed over
    inflight,              \* status requests in flight, oldest first, each with its closure
    error,                 \* state `error` (None = null)
    success,               \* state `success`
    page,                  \* "form" while the page is mounted, "campaign" after navigate()
    navTimer,              \* campaign the pending setTimeout(navigate, 2000) goes to (0 = none)
    nextCampaign,          \* id the backend gives the next campaign
    failStreak             \* consecutive failed status requests of the campaign being processed

pollVars == <<processingCampaignId, campaignStatus, statusCheckErrors, statusInterval,
              inflight, error, success, page, navTimer, nextCampaign, failStreak>>

\* OwnerDashboard (OwnerDashboard.jsx lines 11-50)
VARIABLES
    selectedPeriod,      \* state `selectedPeriod`
    dashPc,              \* "mounting" before the first effect, "ready", "unmounted"
    abortControllerRef,  \* id of the controller in abortControllerRef.current (0 = null)
    aborted,             \* controllers whose abort() was called
    isLoadingRef,        \* isLoadingRef.current
    sinceLastFetch,      \* Date.now() - lastFetchTimeRef.current, followed up to the cooldown
    dashLoading,         \* state `loading`
    dashError,           \* state `error`
    batches,             \* the fetchDashboardData calls that got past the guard
    nBatches,            \* how many there were
    lastForced,          \* forceRefresh of the newest of them
    notification,        \* notificationMessage while showNotification (None = hidden)
    dashboard            \* the data states, with the batch that wrote them

dashVars == <<selectedPeriod, dashPc, abortControllerRef, aborted, isLoadingRef,
              sinceLastFetch, dashLoading, dashError, batches, nBatches, lastForced,
              notification, dashboard>>

\* App: the router and its ProtectedRoute (App.jsx, and the later App module)
VARIABLES
    app,             \* which of the two App modules is built
    pathname,        \* location.pathname
    props,           \* props of the ProtectedRoute rendered last
    sessionStorage,  \* sessionStorage: key -> value or None
    outcome          \* what that ProtectedRoute rendered: children, or a <Navigate>

guardVars == <<app, pathname, props, sessionStorage, outcome>>

\* the live status channels: ApiService.connectWebSocket and the hook
\* useCampaignWebSocket (useCampaignWebSocket.js lines 4-36, 501-595)
VARIABLES
    ws,      \* the socket connectWebSocket returned: readyState, its _pingInterval
    hook,    \* useCampaignWebSocket: campaignId, its socket, states `stats` and `connected`
    wsLog    \* what the channels did so far: sockets constructed, callbacks made, pings sent

channelVars == <<ws, hook, wsLog>>

\* App: what follows a page load, a login or a logout (App.jsx lines 63-118,
\* and the later App module)
VARIABLES
    appPc,   \* what is still to run: "handler" (handleLogin after its await), "render"
             \* (React renders with the new session user and runs the effects)
    navs,    \* the values assigned to window.location.href on this page, in order
    since,   \* the last of page load / login / logout, and the path remembered then
    chain    \* the paths the router rendered since then, in order

appVars == <<appPc, navs, since, chain>>

\* what the actions of one component leave alone
notSessionVars == <<backend, pollVars, dashVars, guardVars, channelVars, appVars>>

notPollVars == <<backend, sessionVars, dashVars, guardVars, channelVars, appVars>>

notDashVars == <<backend, user, loading, loginLoading, mountPc, pending, last, pollVars,
                 guardVars, channelVars, appVars>>

notGuardVars == <<backend, localStorage, loading, loginLoading, href, mountPc, pending, last,
                  pollVars, dashVars, channelVars, appVars>>

notChannelVars == <<backend, sessionVars, pollVars, dashVars, guardVars, appVars>>

notAppVars == <<backend, localStorage, loading, loginLoading, mountPc, pending, last,
                props, pollVars, dashVars, channelVars>>

Ops == {"login", "register", "logout"}

NoResult == [success |-> FALSE, error |-> None, user |-> NoUser, threw |-> FALSE]

NoCatch == [rejected |-> FALSE, token |-> None, href |-> None]

NoLast == [op |-> "none", ans |-> PlainOk, result |-> NoResult, atCatch |-> NoCatch,
           again |-> FALSE]

\* The client-side session state a handler works on.
Client == [ls |-> localStorage, user |-> user, loading |-> loading,
           loginLoading |-> loginLoading, href |-> href]

RemoveItem(st, k) == [st EXCEPT !.ls[k] = None]

SetItem(st, k, v) == [st EXCEPT !.ls[k] = v]

\* what a caller's catch block finds in storage and in window.location
Seen(st) == [rejected |-> TRUE, token |-> st.ls["access_token"], href |-> st.href]

\* ------------------------------------------------------------------------
\* ApiService
\* ------------------------------------------------------------------------
ResponseInterceptor401Ignored(st, ans) == st

\* response interceptor, error branch (lines 318-329)
ResponseInterceptor(st, ans) ==
    IF ans.kind = "http" /\ ans.status = 401
    THEN [RemoveItem(RemoveItem(st, "access_token"), "user_info") EXCEPT !.href = "/"]
    ELSE st

\* makeRequest (lines 334-355): one request; returns the body or throws
makeRequest(st, ans) ==
    IF ans.kind = "ok"
    THEN [st |-> st, threw |-> FALSE, error |-> NoError, response |-> ans]
    ELSE [st |-> ResponseInterceptor(st, ans), threw |-> TRUE,
          error |-> MakeRequestError(ans), response |-> PlainOk]

\* ApiService.login / ApiService.register (lines 358-374)
ApiAuth(st, ans) ==
    LET r == makeRequest(st, ans)
    IN  IF ~r.threw /\ r.response.access_token \notin {None, ""}
        THEN [r EXCEPT !.st = SetItem(SetItem(r.st, "access_token", r.response.access_token),
                                      "user_info", JSONstringify(r.response.user))]
        ELSE r

\* ApiService.logout (lines 376-383): try { request } finally { remove both keys }
ApiLogout(st, ans) ==
    LET r == makeRequest(st, ans)
    IN  [r EXCEPT !.st = RemoveItem(RemoveItem(r.st, "access_token"), "user_info")]

\* ------------------------------------------------------------------------
\* AuthProvider
\* ------------------------------------------------------------------------
Returned(st, result, seen) == [st |-> st, result |-> result, atCatch |-> seen]

AuthSubmitForgetsSetUser(st, ans, action) ==
    LET r == ApiAuth(st, ans)
    IN  IF r.threw
        THEN Returned([r.st EXCEPT !.loginLoading = FALSE],
                      [NoResult EXCEPT !.error = getErrorMessage(r.error, action)], Seen(r.st))
        ELSE IF r.response.access_token \notin {None, ""} /\ r.response.user # NoUser
        THEN Returned([r.st EXCEPT !.loginLoading = FALSE],
                      [NoResult EXCEPT !.success = TRUE, !.user = r.response.user], NoCatch)
        ELSE Returned([r.st EXCEPT !.loginLoading = FALSE],
                      [NoResult EXCEPT !.error = "Invalid response from server"], NoCatch)

\* continuation of login (lines 83-112) and of register (lines 120-149) once the
\* request is answered; they differ in the action name and in one message
AuthSubmit(st, ans, action) ==
    LET r == ApiAuth(st, ans)
    IN  IF r.threw
        THEN Returned([r.st EXCEPT !.loginLoading = FALSE],
                      [NoResult EXCEPT !.error = getErrorMessage(r.error, action)], Seen(r.st))
        ELSE IF r.response.access_token \notin {None, ""} /\ r.response.user # NoUser
        THEN LET s1 == SetItem(r.st, "access_token", r.response.access_token)
                 s2 == IF r.response.user.id # None
                       THEN SetItem(s1, "user_id", r.response.user.id) ELSE s1
             IN  Returned([s2 EXCEPT !.user = r.response.user, !.loginLoading = FALSE],
                          [NoResult EXCEPT !.success = TRUE, !.user = r.response.user], NoCatch)
        ELSE Returned([r.st EXCEPT !.loginLoading = FALSE],
                      [NoResult EXCEPT !.error =
                          IF action = "login" THEN "Invalid response from server"
                          ELSE "Registration failed"], NoCatch)

LogoutUncaught(st, ans) ==
    LET r == ApiLogout(st, ans)
    IN  IF r.threw
        THEN Returned(r.st, [NoResult EXCEPT !.threw = TRUE], Seen(r.st))
        ELSE Returned([r.st EXCEPT !.ls = EmptyStorage, !.user = NoUser, !.href = "/"],
                      [NoResult EXCEPT !.success = TRUE], NoCatch)

\* continuation of logout (lines 155-164): the catch logs, the finally clears
logout(st, ans) ==
    LET r  == ApiLogout(st, ans)
        s1 == RemoveItem(RemoveItem(r.st, "access_token"), "user_id")
        s2 == [s1 EXCEPT !.ls = EmptyStorage]
    IN  Returned([s2 EXCEPT !.user = NoUser, !.href = "/"],
                 [NoResult EXCEPT !.success = TRUE],
                 IF r.threw THEN Seen(r.st) ELSE NoCatch)

CheckAuthStatusKeepsToken(st, ans) ==
    LET r == makeRequest(st, ans)
    IN  IF r.threw
        THEN Returned([r.st EXCEPT !.user = NoUser, !.loading = FALSE], NoResult, Seen(r.st))
        ELSE Returned([r.st EXCEPT !.user = r.response.user, !.loading = FALSE],
                      [NoResult EXCEPT !.success = TRUE, !.user = r.response.user], NoCatch)

\* continuation of checkAuthStatus (lines 65-75) once /api/auth/me is answered
checkAuthStatus(st, ans) ==
    LET r == makeRequest(st, ans)
    IN  IF r.threw
        THEN Returned([RemoveItem(RemoveItem(r.st, "access_token"), "user_id")
                         EXCEPT !.user = NoUser, !.loading = FALSE],
                      NoResult, Seen(r.st))
        ELSE Returned([r.st EXCEPT !.user = r.response.user, !.loading = FALSE],
                      [NoResult EXCEPT !.success = TRUE, !.user = r.response.user], NoCatch)

RefreshUserLogsOut(st, ans) == checkAuthStatus(st, ans)

\* refreshUser (lines 174-183) once /api/auth/me is answered; result.user is
\* the value it returns (NoUser = null)
refreshUser(st, ans) ==
    LET r == makeRequest(st, ans)
    IN  IF r.threw
        THEN Returned(r.st, NoResult, Seen(r.st))
        ELSE Returned([r.st EXCEPT !.user = r.response.user],
                      [NoResult EXCEPT !.success = TRUE, !.user = r.response.user], NoCatch)

\* userData a component passes to updateUser
UserData == {[role |-> "manager"]}

\* updateUser (lines 167-172): setUser(prev => ({...prev, ...userData}))
updateUser(st, userData) == [st EXCEPT !.user = [@ EXCEPT !.role = userData.role]]

\* ------------------------------------------------------------------------
\* OwnerDashboard.fetchAPI (OwnerDashboard.jsx lines 80-131)
\* ------------------------------------------------------------------------
\* one fetchAPI call once the request is answered (or its signal is aborted):
\* an aborted request returns null instead of throwing
fetchAPI(st, ans, signalAborted) ==
    IF signalAborted THEN [st |-> st, threw |-> FALSE, error |-> None, data |-> FALSE]
    ELSE IF ans.kind = "ok"
    THEN [st |-> st, threw |-> FALSE, error |-> None, data |-> (ans # EmptyOk)]
    ELSE IF ans.kind = "http" /\ ans.status = 401
    THEN [st |-> [RemoveItem(st, "access_token") EXCEPT !.href = "/"], threw |-> TRUE,
          error |-> "Authentication required", data |-> FALSE]
    ELSE IF ans.kind = "http"
    THEN [st |-> st, threw |-> TRUE, error |-> "API Error", data |-> FALSE]
    ELSE [st |-> st, threw |-> TRUE, error |-> "Failed to fetch", data |-> FALSE]

\* ------------------------------------------------------------------------
\* Session actions
\* ------------------------------------------------------------------------
InFlight == pending["login"] + pending["register"] + pending["logout"]

\* the variables after a handler returned `ret` for operation `op`
Completed(op, ans, ret) ==
    /\ localStorage' = ret.st.ls
    /\ user' = ret.st.user
    /\ loading' = ret.st.loading
    /\ loginLoading' = ret.st.loginLoading
    /\ href' = ret.st.href
    /\ last' = [op |-> op, ans |-> ans, result |-> ret.result, atCatch |-> ret.atCatch,
                again |-> (op = "logout" /\ last.op = "logout")]

\* the mount effect runs right after the first render, before any handler
Mounted == mountPc # "start"

Start(op) ==
    /\ Mounted
    /\ InFlight < MaxPending
    /\ pending' = [pending EXCEPT ![op] = @ + 1]

Finish(op) ==
    /\ pending[op] > 0
    /\ pending' = [pending EXCEPT ![op] = @ - 1]

\* useEffect(() => { checkAuthStatus() }, []) up to the await (lines 53-65)
CheckAuthStart ==
    /\ mountPc = "start"
    /\ IF localStorage["access_token"] \in {None, ""}
       THEN loading' = FALSE /\ mountPc' = "done"
       ELSE loading' = loading /\ mountPc' = "checking"
    /\ UNCHANGED <<localStorage, user, loginLoading, href, pending, last>>
    /\ UNCHANGED notSessionVars

CheckAuthResponse ==
    /\ mountPc = "checking"
    /\ \E ans \in MeBodies \cup Failures :
          Completed("checkAuthStatus", ans, checkAuthStatus(Client, ans))
    /\ mountPc' = "done"
    /\ UNCHANGED pending
    /\ UNCHANGED notSessionVars

LoginStart ==
    /\ Start("login")
    /\ loginLoading' = TRUE
    /\ UNCHANGED <<localStorage, user, loading, href, mountPc, last>>
    /\ UNCHANGED notSessionVars

LoginResponse ==
    /\ Finish("login")
    /\ \E ans \in AuthBodies \cup Failures :
          Completed("login", ans, AuthSubmit(Client, ans, "login"))
    /\ UNCHANGED mountPc
    /\ UNCHANGED notSessionVars

RegisterStart ==
    /\ Start("register")
    /\ loginLoading' = TRUE
    /\ UNCHANGED <<localStorage, user, loading, href, mountPc, last>>
    /\ UNCHANGED notSessionVars

RegisterResponse ==
    /\ Finish("register")
    /\ \E ans \in AuthBodies \cup Failures :
          Completed("register", ans, AuthSubmit(Client, ans, "register"))
    /\ UNCHANGED mountPc
    /\ UNCHANGED notSessionVars

LogoutStart ==
    /\ Start("logout")
    /\ UNCHANGED <<localStorage, user, loading, loginLoading, href, mountPc, last>>
    /\ UNCHANGED notSessionVars

LogoutResponse ==
    /\ Finish("logout")
    /\ \E ans \in {PlainOk} \cup Failures :
          Completed("logout", ans, logout(Client, ans))
    /\ UNCHANGED mountPc
    /\ UNCHANGED notSessionVars

\* a component calls refreshUser(): request and answer
RefreshUser ==
    /\ Mounted
    /\ \E ans \in MeBodies \cup (Failures \cap OtherAnswers) :
          Completed("refreshUser", ans, refreshUser(Client, ans))
    /\ UNCHANGED <<mountPc, pending>>
    /\ UNCHANGED notSessionVars

\* a component calls updateUser(userData)
UpdateUser ==
    /\ Mounted
    /\ \E userData \in UserData :
          /\ user' = updateUser(Client, userData).user
          /\ user' # user
    /\ UNCHANGED <<localStorage, loading, loginLoading, href, mountPc, pending, last>>
    /\ UNCHANGED notSessionVars

\* the ApiService methods with a catch block of their own
DefaultingMethods == {"getCampaigns", "getUserAnalytics", "getPerformanceMetrics"}

\* getCampaigns (lines 390-398), getUserAnalytics (452-482), getPerformanceMetrics
\* (484-498): one makeRequest; the method's catch block receives the rejection,
\* logs it and returns a default value
WithDefault(st, ans) ==
    LET r == makeRequest(st, ans)
    IN  Returned(r.st, [NoResult EXCEPT !.success = ~r.threw],
                 IF r.threw THEN Seen(r.st) ELSE NoCatch)

\* a component calls one of the methods with a catch block: request and answer
DefaultingCall ==
    /\ Mounted
    /\ \E method \in DefaultingMethods, ans \in OtherAnswers :
          Completed(method, ans, WithDefault(Client, ans))
    /\ UNCHANGED <<mountPc, pending>>
    /\ UNCHANGED notSessionVars

\* an ApiService method without a catch block (getCampaign, getCampaignStatus,
\* ...): request and answer; a failure is rejected to the method's caller
ApiCall ==
    /\ Mounted
    /\ \E ans \in OtherAnswers :
          LET r == makeRequest(Client, ans)
          IN  Completed("apiService", ans,
                        Returned(r.st, [NoResult EXCEPT !.success = ~r.threw, !.threw = r.threw],
                                 IF r.threw THEN Seen(r.st) ELSE NoCatch))
    /\ UNCHANGED <<mountPc, pending>>
    /\ UNCHANGED notSessionVars

\* a fetchAPI call of the owner dashboard: request and answer
DashboardCall ==
    /\ Mounted
    /\ \E ans \in OtherAnswers :
          LET r == fetchAPI(Client, ans, FALSE)
          IN  Completed("fetchAPI", ans,
                        Returned(r.st, [NoResult EXCEPT !.success = ~r.threw, !.threw = r.threw],
                                 IF r.threw THEN Seen(r.st) ELSE NoCatch))
    /\ UNCHANGED <<mountPc, pending>>
    /\ UNCHANGED notSessionVars

\* the page is loaded again (a hard navigation completes, or the user reloads):
\* React state starts over, requests of the old page are gone, storage stays
Reload ==
    /\ user' = NoUser
    /\ loading' = TRUE
    /\ loginLoading' = FALSE
    /\ href' = None
    /\ mountPc' = "start"
    /\ pending' = [op \in Ops |-> 0]
    /\ last' = NoLast
    /\ UNCHANGED localStorage
    /\ UNCHANGED notSessionVars

\* ------------------------------------------------------------------------
\* FormSubmitterPage: status polling (Header.jsx lines 1085-1156, 1284-1296)
\* ------------------------------------------------------------------------
\* `if (statusCheckErrors >= 10)` (line 1142)
StatusErrorLimit == 10

NoStatus == [campaign_id |-> 0, status |-> None, is_complete |-> FALSE,
             processed |-> 0, total |-> 0, error_message |-> None]

NoInterval == [active |-> FALSE, cid |-> 0, errs |-> 0]

LostConnection == "Lost connection to campaign processing. Please check campaign list."

\* bodies of GET /api/campaigns/{cid}/status
StatusBodies(cid) ==
    { [campaign_id |-> cid, status |-> st[1], is_complete |-> st[2],
       processed |-> n, total |-> 1, error_message |-> None] :
         st \in { <<"PROCESSING", FALSE>>, <<"COMPLETED", TRUE>>,
                  <<"FAILED", TRUE>>, <<"STOPPED", TRUE>> },
         n \in {0, 1} }

\* the effect's body (lines 1105-1149) for the values of one render
RunEffect(cid, status, errs) ==
    IF cid # 0 /\ ~status.is_complete
    THEN [active |-> TRUE, cid |-> cid, errs |-> errs]
    ELSE NoInterval

\* the three values of the dependency array that change
Deps(p) == <<p.processingCampaignId, p.campaignStatus.is_complete, p.statusCheckErrors>>

Poll == [processingCampaignId |-> processingCampaignId, campaignStatus |-> campaignStatus,
         statusCheckErrors |-> statusCheckErrors, statusInterval |-> statusInterval,
         error |-> error, success |-> success, page |-> page, navTimer |-> navTimer]

\* clearInterval(statusInterval) in a callback: the interval the callback closed over
ClearInterval(p, c) ==
    IF p.statusInterval = [active |-> TRUE, cid |-> c.cid, errs |-> c.errs]
    THEN [p EXCEPT !.statusInterval = NoInterval]
    ELSE p

\* React re-renders after a handler: when a dependency changed, the cleanup
\* clears the old interval and the effect runs again; navigate() unmounts the page
Rerender(old, p) ==
    IF p.page # "form" THEN [p EXCEPT !.statusInterval = NoInterval]
    ELSE IF Deps(p) # Deps(old)
    THEN [p EXCEPT !.statusInterval =
              RunEffect(p.processingCampaignId, p.campaignStatus, p.statusCheckErrors)]
    ELSE p

OnStatusKeepsTotal(p, c, status) ==
    [p EXCEPT !.campaignStatus = [status EXCEPT !.total = p.campaignStatus.total],
              !.statusCheckErrors = 0]

OnStatusSkipsStopped(p, c, status) ==
    LET p1 == [p EXCEPT !.campaignStatus = status, !.statusCheckErrors = 0]
    IN  IF ~status.is_complete \/ status.status = "STOPPED" THEN p1
        ELSE LET p2 == [ClearInterval(p1, c) EXCEPT !.processingCampaignId = 0]
             IN  CASE status.status = "COMPLETED" ->
                        [p2 EXCEPT !.success = TRUE, !.navTimer = c.cid]
                   [] OTHER ->
                        [p2 EXCEPT !.error = Or(status.error_message, "Campaign processing failed")]

\* try branch of the interval callback (lines 1111-1136), request answered with `status`
OnStatus(p, c, status) ==
    LET p1 == [p EXCEPT !.campaignStatus = status, !.statusCheckErrors = 0]
    IN  IF ~status.is_complete THEN p1
        ELSE LET p2 == [ClearInterval(p1, c) EXCEPT !.processingCampaignId = 0]
             IN  CASE status.status = "COMPLETED" ->
                        [p2 EXCEPT !.success = TRUE, !.navTimer = c.cid]
                   [] status.status = "FAILED" ->
                        [p2 EXCEPT !.error = Or(status.error_message, "Campaign processing failed")]
                   [] status.status = "STOPPED" -> [p2 EXCEPT !.page = "campaign"]
                   [] OTHER -> p2

\* catch branch of the interval callback (lines 1137-1147): the counter it
\* compares is the one of the render the callback was created in
OnStatusError(p, c) ==
    LET p1 == [p EXCEPT !.statusCheckErrors = @ + 1]
    IN  IF c.errs >= StatusErrorLimit
        THEN [ClearInterval(p1, c) EXCEPT !.error = LostConnection]
        ELSE p1

PollDone(p) ==
    /\ processingCampaignId' = p.processingCampaignId
    /\ campaignStatus' = p.campaignStatus
    /\ statusCheckErrors' = p.statusCheckErrors
    /\ statusInterval' = p.statusInterval
    /\ error' = p.error
    /\ success' = p.success
    /\ page' = p.page
    /\ navTimer' = p.navTimer

\* handleSubmit for a new campaign (lines 1221-1310), startCampaignWithCSV answered
HandleSubmit ==
    /\ page = "form"
    /\ nextCampaign <= MaxCampaigns
    /\ \E ok \in BOOLEAN, total \in {0, 1} :
          LET p0 == [Poll EXCEPT !.error = None, !.success = FALSE]
              p1 == IF ok
                    THEN [p0 EXCEPT !.processingCampaignId = nextCampaign,
                                    !.campaignStatus =
                                        [campaign_id |-> nextCampaign, status |-> "PROCESSING",
                                         is_complete |-> FALSE, processed |-> 0,
                                         total |-> total, error_message |-> None]]
                    ELSE [p0 EXCEPT !.error = "Failed to start campaign"]
          IN  /\ PollDone(Rerender(Poll, p1))
              /\ nextCampaign' = IF ok THEN nextCampaign + 1 ELSE nextCampaign
              /\ failStreak' = IF ok THEN 0 ELSE failStreak
    /\ UNCHANGED inflight
    /\ UNCHANGED notPollVars

\* the interval fires: the callback starts a status request (lines 1108-1111)
PollTick ==
    /\ page = "form"
    /\ statusInterval.active
    /\ Len(inflight) < MaxInFlight
    /\ inflight' = Append(inflight, [cid |-> statusInterval.cid, errs |-> statusInterval.errs])
    /\ UNCHANGED <<processingCampaignId, campaignStatus, statusCheckErrors, statusInterval,
                   error, success, page, navTimer, nextCampaign, failStreak>>
    /\ UNCHANGED notPollVars

Remove(seq, i) == [j \in 1..(Len(seq) - 1) |-> IF j < i THEN seq[j] ELSE seq[j + 1]]

\* a status request is answered with a status
PollResponse ==
    /\ page = "form"
    /\ \E i \in 1..Len(inflight) : \E status \in StatusBodies(inflight[i].cid) :
          /\ PollDone(Rerender(Poll, OnStatus(Poll, inflight[i], status)))
          /\ inflight' = Remove(inflight, i)
          /\ failStreak' = IF inflight[i].cid = processingCampaignId THEN 0 ELSE failStreak
    /\ UNCHANGED nextCampaign
    /\ UNCHANGED notPollVars

\* a status request fails (network failure, HTTP 500)
PollFailure ==
    /\ page = "form"
    /\ statusCheckErrors < MaxErrors
    /\ \E i \in 1..Len(inflight) :
          /\ PollDone(Rerender(Poll, OnStatusError(Poll, inflight[i])))
          /\ inflight' = Remove(inflight, i)
          /\ failStreak' = IF inflight[i].cid = processingCampaignId
                           THEN failStreak + 1 ELSE failStreak
    /\ UNCHANGED nextCampaign
    /\ UNCHANGED notPollVars

\* setTimeout(() => navigate(`/campaigns/${id}`), 2000) fires
NavigateTimer ==
    /\ page = "form"
    /\ navTimer # 0
    /\ PollDone(Rerender(Poll, [Poll EXCEPT !.page = "campaign", !.navTimer = 0]))
    /\ UNCHANGED <<inflight, nextCampaign, failStreak>>
    /\ UNCHANGED notPollVars

InitPoll ==
    /\ processingCampaignId = 0
    /\ campaignStatus = NoStatus
    /\ statusCheckErrors = 0
    /\ statusInterval = NoInterval
    /\ inflight = <<>>
    /\ error = None
    /\ success = FALSE
    /\ page = "form"
    /\ navTimer = 0
    /\ nextCampaign = 1
    /\ failStreak = 0

NextPoll ==
    \/ HandleSubmit
    \/ PollTick
    \/ PollResponse
    \/ PollFailure
    \/ NavigateTimer

\* ------------------------------------------------------------------------
\* OwnerDashboard: fetchDashboardData (OwnerDashboard.jsx lines 134-459)
\* ------------------------------------------------------------------------
\* `timeSinceLastFetch < 1000` (line 150)
CooldownMs == 1000

Periods == {"month", "week"}

getDaysFromPeriod(period) ==
    CASE period = "today" -> 1
      [] period = "week" -> 7
      [] period = "month" -> 30
      [] period = "year" -> 365
      [] OTHER -> 30

\* the six requests of step 3
SupportEndpoints == {"dailyStats", "performance", "campaigns", "users", "revenue", "metrics"}

\* how the six can be answered: which of them bring data, or all of them 401
SupportAnswers ==
    { [data |-> S, status401 |-> FALSE] :
          S \in {SupportEndpoints, {}, {"campaigns", "users", "revenue"}} }
    \cup {[data |-> {}, status401 |-> TRUE]}

AnalyticsAnswers ==
    {PlainOk, EmptyOk, NetworkError, Answer("http", 401, NoData, None, NoUser),
     Answer("http", 500, NoData, None, NoUser)}

NoBatch == [pc |-> "none", days |-> 0, analytics |-> "none", ctl |-> 0]

DoneBatch == [pc |-> "done", days |-> 0, analytics |-> "none", ctl |-> 0]

NoDashboard ==
    [writer |-> 0, newest |-> 0, days |-> 0, stats |-> "initial", systemMetrics |-> "initial",
     revenueData |-> "empty", customerActivity |-> "empty", recentTransactions |-> "empty",
     campaigns |-> "empty", teamMembers |-> "empty"]

\* the working state of the dashboard's handlers
Dash == [abortCtl |-> abortControllerRef, aborted |-> aborted, isLoadingRef |-> isLoadingRef,
         sinceLastFetch |-> sinceLastFetch, loading |-> dashLoading, error |-> dashError,
         batches |-> batches, nBatches |-> nBatches, lastForced |-> lastForced,
         notification |-> notification, dashboard |-> dashboard, st |-> Client]

BatchInFlight(bs) == \E b \in DOMAIN bs : bs[b].pc \in {"analytics", "supporting"}

\* finally block (lines 423-428)
Finally(d, b, mounted) ==
    [d EXCEPT !.batches[b] = DoneBatch, !.isLoadingRef = FALSE,
              !.loading = IF mounted THEN FALSE ELSE @]

\* fetchDashboardData(forceRefresh) up to its first await (lines 145-189)
fetchDashboardData(d, forceRefresh, period) ==
    IF ~forceRefresh /\ (d.isLoadingRef \/ d.sinceLastFetch < CooldownMs)
    THEN d
    ELSE LET id == d.nBatches + 1
             d1 == [d EXCEPT !.aborted = IF d.abortCtl # 0 THEN @ \cup {d.abortCtl} ELSE @,
                             !.abortCtl = id, !.isLoadingRef = TRUE, !.sinceLastFetch = 0,
                             !.nBatches = id, !.lastForced = forceRefresh,
                             !.loading = TRUE, !.error = None]
         IN  IF d1.st.ls["access_token"] \in {None, ""}
             THEN Finally([d1 EXCEPT !.error = "Authentication required. Please login again."],
                          id, TRUE)
             ELSE [d1 EXCEPT !.batches[id] =
                      [pc |-> "analytics", days |-> getDaysFromPeriod(period),
                       analytics |-> "none", ctl |-> id]]

\* step 2 answered, step 3 issued (lines 189-227): the six requests take the
\* controller that is in abortControllerRef now
AfterAnalytics(d, b, ans, mounted) ==
    LET r  == fetchAPI(d.st, ans, d.batches[b].ctl \in d.aborted)
        d1 == [d EXCEPT !.st = r.st]
    IN  IF ~mounted THEN Finally(d1, b, mounted)
        ELSE [d1 EXCEPT !.notification =
                            IF r.threw THEN "Failed to load analytics data" ELSE @,
                        !.batches[b] =
                            [@ EXCEPT !.pc = "supporting",
                                      !.analytics = IF ~r.threw /\ r.data THEN "data" ELSE "null",
                                      !.ctl = d.abortCtl]]

\* steps 4 on (lines 229-413): what the batch writes
Updates(b, newest, batch, S) ==
    [writer |-> b, newest |-> newest, days |-> batch.days,
     stats |-> IF batch.analytics # "data" THEN "default"
               ELSE IF "revenue" \in S THEN "analytics+revenue" ELSE "analytics",
     systemMetrics |-> IF batch.analytics # "data" THEN "default"
                       ELSE IF "metrics" \in S THEN "metrics" ELSE "analytics",
     revenueData |-> IF "dailyStats" \in S THEN "dailyStats" ELSE "empty",
     customerActivity |-> IF "dailyStats" \in S THEN "dailyStats" ELSE "empty",
     recentTransactions |-> IF "performance" \in S THEN "performance"
                            ELSE IF "campaigns" \in S THEN "campaigns" ELSE "empty",
     campaigns |-> IF "performance" \in S THEN "performance"
                   ELSE IF "campaigns" \in S THEN "campaigns" ELSE "empty",
     teamMembers |-> IF "users" \in S THEN "users" ELSE "empty"]

\* Promise.allSettled of step 3 resolved (lines 229-428): aborted requests
\* count as answered with null
AfterSupport(d, b, sup, mounted) ==
    LET gone == d.batches[b].ctl \in d.aborted
        S    == IF gone THEN {} ELSE sup.data
        d1   == IF sup.status401 /\ ~gone
                THEN [d EXCEPT !.st =
                         fetchAPI(d.st, Answer("http", 401, NoData, None, NoUser), FALSE).st]
                ELSE d
    IN  IF ~mounted THEN Finally(d1, b, mounted)
        ELSE Finally([d1 EXCEPT !.dashboard = Updates(b, d.nBatches, d.batches[b], S)],
                     b, mounted)

DashDone(d) ==
    /\ abortControllerRef' = d.abortCtl
    /\ aborted' = d.aborted
    /\ isLoadingRef' = d.isLoadingRef
    /\ sinceLastFetch' = d.sinceLastFetch
    /\ dashLoading' = d.loading
    /\ dashError' = d.error
    /\ batches' = d.batches
    /\ nBatches' = d.nBatches
    /\ lastForced' = d.lastForced
    /\ notification' = d.notification
    /\ dashboard' = d.dashboard
    /\ localStorage' = d.st.ls
    /\ href' = d.st.href

\* the effect on [selectedPeriod, fetchDashboardData] (lines 432-454)
FetchEffect(d, period) ==
    IF d.st.ls["access_token"] \in {None, ""}
    THEN [d EXCEPT !.error = "Please login to view dashboard", !.loading = FALSE]
    ELSE fetchDashboardData(d, FALSE, period)

\* a call gets past the guard only while the model has a batch left
Room(d) == d.nBatches <= MaxBatches

\* first render: the effect runs
MountEffect ==
    /\ dashPc = "mounting"
    /\ href = None
    /\ dashPc' = "ready"
    /\ DashDone(FetchEffect(Dash, selectedPeriod))
    /\ UNCHANGED selectedPeriod
    /\ UNCHANGED notDashVars

\* a period button: setSelectedPeriod(period), then the effect runs again
ChangePeriod ==
    /\ dashPc = "ready"
    /\ href = None
    /\ \E period \in Periods \ {selectedPeriod} :
          /\ Room(FetchEffect(Dash, period))
          /\ selectedPeriod' = period
          /\ DashDone(FetchEffect(Dash, period))
    /\ UNCHANGED dashPc
    /\ UNCHANGED notDashVars

\* the refresh button: handleRefresh (lines 457-459)
HandleRefresh ==
    /\ dashPc = "ready"
    /\ href = None
    /\ Room(fetchDashboardData(Dash, TRUE, selectedPeriod))
    /\ DashDone(fetchDashboardData(Dash, TRUE, selectedPeriod))
    /\ UNCHANGED <<selectedPeriod, dashPc>>
    /\ UNCHANGED notDashVars

\* the analytics request of a batch is answered, or rejected by its aborted signal
AnalyticsDone ==
    /\ href = None
    /\ \E b \in 1..MaxBatches : \E ans \in AnalyticsAnswers :
          /\ batches[b].pc = "analytics"
          /\ DashDone(AfterAnalytics(Dash, b, ans, dashPc # "unmounted"))
    /\ UNCHANGED <<selectedPeriod, dashPc>>
    /\ UNCHANGED notDashVars

\* the six requests of a batch are settled
SupportDone ==
    /\ href = None
    /\ \E b \in 1..MaxBatches : \E sup \in SupportAnswers :
          /\ batches[b].pc = "supporting"
          /\ DashDone(AfterSupport(Dash, b, sup, dashPc # "unmounted"))
    /\ UNCHANGED <<selectedPeriod, dashPc>>
    /\ UNCHANGED notDashVars

\* time passes
ClockTick ==
    /\ href = None
    /\ sinceLastFetch < CooldownMs
    /\ sinceLastFetch' = IF sinceLastFetch + ClockStep > CooldownMs
                         THEN CooldownMs ELSE sinceLastFetch + ClockStep
    /\ UNCHANGED <<selectedPeriod, dashPc, abortControllerRef, aborted, isLoadingRef,
                   dashLoading, dashError, batches, nBatches, lastForced, notification,
                   dashboard, localStorage, href>>
    /\ UNCHANGED notDashVars

\* setTimeout of displayNotification fires (lines 72-76)
NotificationTimer ==
    /\ href = None
    /\ dashPc = "ready"
    /\ notification # None
    /\ notification' = None
    /\ UNCHANGED <<selectedPeriod, dashPc, abortControllerRef, aborted, isLoadingRef,
                   sinceLastFetch, dashLoading, dashError, batches, nBatches, lastForced,
                   dashboard, localStorage, href>>
    /\ UNCHANGED notDashVars

\* cleanup on unmount (lines 58-63)
Unmount ==
    /\ href = None
    /\ dashPc = "ready"
    /\ dashPc' = "unmounted"
    /\ aborted' = IF abortControllerRef # 0 THEN aborted \cup {abortControllerRef} ELSE aborted
    /\ UNCHANGED <<selectedPeriod, abortControllerRef, isLoadingRef, sinceLastFetch,
                   dashLoading, dashError, batches, nBatches, lastForced, notification,
                   dashboard, localStorage, href>>
    /\ UNCHANGED notDashVars

\* no dashboard on the page
InitDashIdle ==
    /\ selectedPeriod = "month"
    /\ dashPc = "unmounted"
    /\ abortControllerRef = 0
    /\ aborted = {}
    /\ isLoadingRef = FALSE
    /\ sinceLastFetch = CooldownMs
    /\ dashLoading = TRUE
    /\ dashError = None
    /\ batches = [b \in 1..(MaxBatches + 1) |-> NoBatch]
    /\ nBatches = 0
    /\ lastForced = FALSE
    /\ notification = None
    /\ dashboard = NoDashboard

\* the dashboard of a signed-in owner, constructed and not yet rendered
InitDash ==
    /\ selectedPeriod = "month"
    /\ dashPc = "mounting"
    /\ abortControllerRef = 0
    /\ aborted = {}
    /\ isLoadingRef = FALSE
    /\ sinceLastFetch = CooldownMs
    /\ dashLoading = TRUE
    /\ dashError = None
    /\ batches = [b \in 1..(MaxBatches + 1) |-> NoBatch]
    /\ nBatches = 0
    /\ lastForced = FALSE
    /\ notification = None
    /\ dashboard = NoDashboard

NextDash ==
    \/ MountEffect
    \/ ChangePeriod
    \/ HandleRefresh
    \/ AnalyticsDone
    \/ SupportDone
    \/ ClockTick
    \/ NotificationTimer
    \/ Unmount

\* ------------------------------------------------------------------------
\* App: ProtectedRoute (App.jsx lines 36-61; the later App module lines 44-82)
\* ------------------------------------------------------------------------
\* the App module of src/frontend/src/App.jsx and the later one with
\* getDefaultPathForRole
Apps == {"App", "AppByRole"}

\* role values a user record can carry; the last one is none of the three
RoleValues == {"user", "admin", "owner", "manager"}

\* user records as the guard reads them
GuardUsers == [id : {"u1"}, role : RoleValues, contactInfoCompleted : BOOLEAN]

ProtectedPaths == {"/dashboard", "/admin", "/owner", "/contact-info", "/form-submitter"}

\* props a <ProtectedRoute> can be given
PropsSet == [allowedRoles : {{}, {"user"}, {"admin"}, {"owner"}, {"admin", "owner"}},
             requiresContactInfo : BOOLEAN]

NoProps == [allowedRoles |-> {}, requiresContactInfo |-> FALSE]

\* the props of the guarded routes in the <Route> table of each App module
RouteProps(a, path) ==
    CASE path = "/owner" -> [NoProps EXCEPT !.allowedRoles = {"owner"}]
      [] path = "/admin" ->
            [NoProps EXCEPT !.allowedRoles = IF a = "App" THEN {"admin"} ELSE {"admin", "owner"}]
      [] path = "/user" -> [NoProps EXCEPT !.allowedRoles = {"user"}]
      [] path = "/reports" -> [NoProps EXCEPT !.allowedRoles = {"owner", "admin"}]
      [] path = "/billing" -> [NoProps EXCEPT !.allowedRoles = {"owner"}]
      [] OTHER -> NoProps

EmptySession == [redirectAfterLogin |-> None, redirectAfterContactInfo |-> None]

NoOutcome == [rendered |-> FALSE, allow |-> FALSE, to |-> None]

Children == [rendered |-> TRUE, allow |-> TRUE, to |-> None]

Navigate(to) == [rendered |-> TRUE, allow |-> FALSE, to |-> to]

\* user.contactInfoCompleted, undefined on records without the field
ContactInfoCompleted(u) ==
    IF "contactInfoCompleted" \in DOMAIN u THEN u.contactInfoCompleted ELSE FALSE

getDefaultPathForRole(role) ==
    CASE role = "owner" -> "/owner"
      [] role = "admin" -> "/admin"
      [] OTHER -> "/dashboard"

ProtectedRouteIgnoresContactInfo(a, u, pr, path, ss) ==
    IF u = NoUser
    THEN [out |-> Navigate("/"), ss |-> [ss EXCEPT !.redirectAfterLogin = path]]
    ELSE IF pr.allowedRoles # {} /\ u.role \notin pr.allowedRoles
    THEN [out |-> Navigate(IF a = "App" THEN "/dashboard" ELSE getDefaultPathForRole(u.role)),
          ss |-> ss]
    ELSE [out |-> Children, ss |-> ss]

ProtectedRouteForgetsPath(a, u, pr, path, ss) ==
    IF u = NoUser
    THEN [out |-> Navigate("/"), ss |-> ss]
    ELSE IF pr.allowedRoles # {} /\ u.role \notin pr.allowedRoles
    THEN [out |-> Navigate(IF a = "App" THEN "/dashboard" ELSE getDefaultPathForRole(u.role)),
          ss |-> ss]
    ELSE IF pr.requiresContactInfo /\ ~ContactInfoCompleted(u) /\ path # "/contact-info"
    THEN [out |-> Navigate("/contact-info"), ss |-> ss]
    ELSE [out |-> Children, ss |-> ss]

\* one render of <ProtectedRoute {...pr}> at `path` for the user `u`
ProtectedRoute(a, u, pr, path, ss) ==
    IF u = NoUser
    THEN [out |-> Navigate("/"), ss |-> [ss EXCEPT !.redirectAfterLogin = path]]
    ELSE IF pr.allowedRoles # {} /\ u.role \notin pr.allowedRoles
    THEN [out |-> Navigate(IF a = "App" THEN "/dashboard" ELSE getDefaultPathForRole(u.role)),
          ss |-> ss]
    ELSE IF pr.requiresContactInfo /\ ~ContactInfoCompleted(u) /\ path # "/contact-info"
    THEN [out |-> Navigate("/contact-info"),
          ss |-> [ss EXCEPT !.redirectAfterContactInfo = path]]
    ELSE [out |-> Children, ss |-> ss]

\* the route at `path` renders its guard
RenderGuard(u, pr, path) ==
    LET r == ProtectedRoute(app, u, pr, path, sessionStorage)
    IN  /\ pathname' = path
        /\ props' = pr
        /\ outcome' = r.out
        /\ sessionStorage' = r.ss

\* the browser goes to a guarded route
Visit ==
    /\ \E path \in ProtectedPaths : \E pr \in PropsSet : RenderGuard(user, pr, path)
    /\ UNCHANGED <<app, user>>
    /\ UNCHANGED notGuardVars

\* <Navigate to=... replace />: the router goes there and renders that route
FollowNavigate ==
    /\ outcome.rendered
    /\ outcome.to # None
    /\ IF outcome.to \in ProtectedPaths
       THEN RenderGuard(user, RouteProps(app, outcome.to), outcome.to)
       ELSE /\ pathname' = outcome.to
            /\ props' = NoProps
            /\ outcome' = NoOutcome
            /\ UNCHANGED sessionStorage
    /\ UNCHANGED <<app, user>>
    /\ UNCHANGED notGuardVars

\* the session user changes (login, logout, refresh): the guard on screen
\* renders again
UserChanges ==
    /\ \E u \in (GuardUsers \cup {NoUser}) \ {user} :
          /\ user' = u
          /\ IF outcome.rendered
             THEN RenderGuard(u, props, pathname)
             ELSE UNCHANGED <<pathname, props, outcome, sessionStorage>>
    /\ UNCHANGED app
    /\ UNCHANGED notGuardVars

\* no router in the picture
InitGuardIdle ==
    /\ app = "App"
    /\ pathname = "/"
    /\ props = NoProps
    /\ sessionStorage = EmptySession
    /\ outcome = NoOutcome

NextGuard ==
    \/ Visit
    \/ FollowNavigate
    \/ UserChanges

\* ------------------------------------------------------------------------
\* Live status channels (useCampaignWebSocket.js lines 4-36 and 501-595)
\* ------------------------------------------------------------------------
MessageTypes == {"connection", "pong", "keepalive", "campaign_update", "custom"}

\* messages that parse as JSON
Messages == [type : MessageTypes, body : {1, 2}]

NoMessage == [type |-> None, body |-> 0]

\* readyState "none": no socket was constructed
NoWs == [readyState |-> "none", pingInterval |-> FALSE, closeCalled |-> FALSE]

\* statsFor: the campaign whose socket delivered `stats`; prev: readyState of
\* the socket of the campaignId before the last change
NoHook == [campaignId |-> 0, readyState |-> "none", stats |-> NoMessage, connected |-> FALSE,
           statsFor |-> 0, prev |-> "none"]

NoWsLog == [opens |-> 0, constructed |-> 0, errors |-> 0, closes |-> 0, pings |-> 0,
            received |-> 0, lastReceived |-> NoMessage, delivered |-> 0,
            lastDelivered |-> NoMessage]

\* connectWebSocket(onMessage, onError, onClose, campaignId) (lines 501-583)
connectWebSocket(token, log) ==
    IF token \in {None, ""}
    THEN [ws |-> NoWs, log |-> [log EXCEPT !.opens = @ + 1, !.errors = @ + 1]]
    ELSE [ws |-> [readyState |-> "CONNECTING", pingInterval |-> TRUE, closeCalled |-> FALSE],
          log |-> [log EXCEPT !.opens = @ + 1, !.constructed = @ + 1]]

\* ws.onmessage of connectWebSocket for a message that parses (lines 527-549)
onmessage(m, log) ==
    LET l == [log EXCEPT !.received = @ + 1, !.lastReceived = m]
    IN  IF m.type \in {"connection", "pong", "keepalive"} THEN l
        ELSE [l EXCEPT !.delivered = @ + 1, !.lastDelivered = m]

\* closeWebSocket(ws) (lines 586-595); close() takes an OPEN socket to CLOSING
closeWebSocket(w) ==
    [w EXCEPT !.pingInterval = FALSE,
              !.closeCalled = TRUE,
              !.readyState = IF @ = "OPEN" THEN "CLOSING" ELSE @]

\* a component opens the channel
ConnectWebSocket ==
    /\ ws.readyState \in {"none", "CLOSED"}
    /\ ~ws.pingInterval
    /\ wsLog.opens < MaxEvents
    /\ LET r == connectWebSocket(localStorage["access_token"], wsLog)
       IN  ws' = r.ws /\ wsLog' = r.log
    /\ UNCHANGED hook
    /\ UNCHANGED notChannelVars

\* ws.onopen (lines 519-526): the initial ping
WsOpen ==
    /\ ws.readyState = "CONNECTING"
    /\ wsLog.pings < MaxEvents
    /\ ws' = [ws EXCEPT !.readyState = "OPEN"]
    /\ wsLog' = [wsLog EXCEPT !.pings = @ + 1]
    /\ UNCHANGED hook
    /\ UNCHANGED notChannelVars

\* a message arrives on the open socket; one that does not parse is logged only
WsMessage ==
    /\ ws.readyState = "OPEN"
    /\ wsLog.received < MaxEvents
    /\ \/ \E m \in Messages : wsLog' = onmessage(m, wsLog)
       \/ wsLog' = [wsLog EXCEPT !.received = @ + 1, !.lastReceived = NoMessage]
    /\ UNCHANGED <<ws, hook>>
    /\ UNCHANGED notChannelVars

\* the connection fails: ws.onerror (lines 551-554), then the socket closes
WsError ==
    /\ ws.readyState \in {"CONNECTING", "OPEN"}
    /\ wsLog.errors < MaxEvents
    /\ ws' = [ws EXCEPT !.readyState = "CLOSING"]
    /\ wsLog' = [wsLog EXCEPT !.errors = @ + 1]
    /\ UNCHANGED hook
    /\ UNCHANGED notChannelVars

\* the socket is closed, by the peer or after close(): ws.onclose (lines 556-563)
WsClose ==
    /\ ws.readyState \in {"CONNECTING", "OPEN", "CLOSING"}
    /\ ws' = [ws EXCEPT !.readyState = "CLOSED"]
    /\ wsLog' = [wsLog EXCEPT !.closes = IF @ < MaxEvents THEN @ + 1 ELSE @]
    /\ UNCHANGED hook
    /\ UNCHANGED notChannelVars

\* the 30 s interval fires (lines 566-572)
PingTick ==
    /\ ws.pingInterval
    /\ IF ws.readyState = "OPEN"
       THEN /\ wsLog.pings < MaxEvents
            /\ wsLog' = [wsLog EXCEPT !.pings = @ + 1]
            /\ UNCHANGED ws
       ELSE /\ ws' = [ws EXCEPT !.pingInterval = FALSE]
            /\ UNCHANGED wsLog
    /\ UNCHANGED hook
    /\ UNCHANGED notChannelVars

\* the component tears the channel down
CloseWebSocket ==
    /\ ws.readyState # "none"
    /\ ~ws.closeCalled
    /\ ws' = closeWebSocket(ws)
    /\ UNCHANGED <<hook, wsLog>>
    /\ UNCHANGED notChannelVars

\* useCampaignWebSocket(campaignId): the effect runs for a campaign (lines 8-13)
HookEffect ==
    /\ hook.readyState \in {"none", "CLOSED"}
    /\ wsLog.opens < MaxEvents
    /\ \E cid \in 1..MaxCampaigns :
          hook' = [hook EXCEPT !.campaignId = cid, !.readyState = "CONNECTING"]
    /\ wsLog' = [wsLog EXCEPT !.opens = @ + 1, !.constructed = @ + 1]
    /\ UNCHANGED ws
    /\ UNCHANGED notChannelVars

\* the hook's ws.onopen (lines 15-18)
HookOpen ==
    /\ hook.readyState = "CONNECTING"
    /\ hook' = [hook EXCEPT !.readyState = "OPEN", !.connected = TRUE]
    /\ UNCHANGED <<ws, wsLog>>
    /\ UNCHANGED notChannelVars

\* the hook's ws.onmessage (lines 20-23) for a message that parses
HookMessage ==
    /\ hook.readyState = "OPEN"
    /\ wsLog.received < MaxEvents
    /\ \E m \in Messages :
          /\ hook' = [hook EXCEPT !.stats = m, !.statsFor = hook.campaignId]
          /\ wsLog' = [wsLog EXCEPT !.received = @ + 1, !.lastReceived = m]
    /\ UNCHANGED ws
    /\ UNCHANGED notChannelVars

\* the hook's socket is closed: ws.onclose (lines 25-28)
HookClose ==
    /\ hook.readyState \in {"CONNECTING", "OPEN", "CLOSING"}
    /\ hook' = [hook EXCEPT !.readyState = "CLOSED", !.connected = FALSE]
    /\ UNCHANGED <<ws, wsLog>>
    /\ UNCHANGED notChannelVars

\* the effect's cleanup (lines 30-32): ws.close()
HookCleanup ==
    /\ hook.readyState \in {"CONNECTING", "OPEN"}
    /\ hook' = [hook EXCEPT !.readyState = "CLOSING"]
    /\ UNCHANGED <<ws, wsLog>>
    /\ UNCHANGED notChannelVars

\* campaignId changes while the hook has a socket: the cleanup of the old
\* effect calls close() on it (lines 30-32) and the effect runs for the new
\* campaignId (lines 8-13) in the same commit
HookChange ==
    /\ hook.readyState \in {"CONNECTING", "OPEN"}
    /\ hook.prev \in {"none", "CLOSED"}
    /\ wsLog.opens < MaxEvents
    /\ \E cid \in (1..MaxCampaigns) \ {hook.campaignId} :
          hook' = [hook EXCEPT !.campaignId = cid, !.readyState = "CONNECTING",
                               !.prev = "CLOSING"]
    /\ wsLog' = [wsLog EXCEPT !.opens = @ + 1, !.constructed = @ + 1]
    /\ UNCHANGED ws
    /\ UNCHANGED notChannelVars

\* the socket of the previous campaignId is closed: its ws.onclose (lines 25-28)
HookPrevClose ==
    /\ hook.prev = "CLOSING"
    /\ hook' = [hook EXCEPT !.prev = "CLOSED", !.connected = FALSE]
    /\ UNCHANGED <<ws, wsLog>>
    /\ UNCHANGED notChannelVars

\* no channel in the picture
InitChannelIdle ==
    /\ ws = NoWs
    /\ hook = NoHook
    /\ wsLog = NoWsLog

NextChannel ==
    \/ ConnectWebSocket
    \/ WsOpen
    \/ WsMessage
    \/ WsError
    \/ WsClose
    \/ PingTick
    \/ CloseWebSocket
    \/ HookEffect
    \/ HookOpen
    \/ HookMessage
    \/ HookClose
    \/ HookCleanup
    \/ HookChange
    \/ HookPrevClose

\* ------------------------------------------------------------------------
\* App: routes, redirect effects, handleLogin, logout (App.jsx lines 63-411,
\* the later App module lines 72-479, AuthProvider.logout)
\* ------------------------------------------------------------------------
\* user records as login delivers them
AppUsers == [id : {"u1"}, role : RoleValues]

\* paths a browser can ask for: the index, guarded routes, legacy routes, the
\* 404 page and a path no route matches
AppPaths == {"/", "/dashboard", "/owner", "/admin", "/user", "/reports", "/billing",
             "/form-submitter", "/contact-info", "/campaigns/new",
             "/ContactInformationForm", "/404", "/nowhere"}

\* the routes wrapped in <ProtectedRoute> (/reports and /billing only exist in
\* the later App module)
GuardedPaths(a) ==
    {"/dashboard", "/owner", "/admin", "/user", "/form-submitter", "/contact-info"}
    \cup (IF a = "AppByRole" THEN {"/reports", "/billing"} ELSE {})

\* <Route path=... element={<Navigate to=... replace />} />
LegacyRedirect(path) ==
    CASE path = "/campaigns/new" -> "/form-submitter"
      [] path = "/ContactInformationForm" -> "/contact-info"
      [] OTHER -> None

RoleDashboardToUserPage(u) ==
    CASE u.role = "owner" -> Navigate("/owner")
      [] u.role = "admin" -> Navigate("/admin")
      [] OTHER -> Navigate("/user")

\* RoleDashboard, the element of /dashboard in the later App module
RoleDashboard(u) ==
    CASE u.role = "owner" -> Navigate("/owner")
      [] u.role = "admin" -> Navigate("/admin")
      [] OTHER -> Children

\* the index route
IndexRoute(a, u) ==
    IF u # NoUser
    THEN Navigate(IF a = "App" THEN "/dashboard" ELSE getDefaultPathForRole(u.role))
    ELSE Children

\* what <Routes> renders at `path` for the user `u`
RouteElement(a, u, path, ss) ==
    IF path = "/" THEN [out |-> IndexRoute(a, u), ss |-> ss]
    ELSE IF path \in GuardedPaths(a)
    THEN LET r == ProtectedRoute(a, u, RouteProps(a, path), path, ss)
         IN  IF r.out = Children /\ a = "AppByRole" /\ path = "/dashboard"
             THEN [r EXCEPT !.out = RoleDashboard(u)]
             ELSE r
    ELSE IF LegacyRedirect(path) # None THEN [out |-> Navigate(LegacyRedirect(path)), ss |-> ss]
    ELSE IF path = "/404" THEN [out |-> Children, ss |-> ss]
    ELSE [out |-> Navigate("/404"), ss |-> ss]

\* window.location.href = to
Assign(w, to) == [w EXCEPT !.href = to, !.navs = Append(@, to)]

\* the later App module's effect on [user, location.pathname] (lines 125-132)
RoleRedirectEffect(a, u, path, w) ==
    IF a = "AppByRole" /\ u # NoUser /\ path = "/"
    THEN Assign(w, getDefaultPathForRole(u.role))
    ELSE w

\* the effect on [user] (App.jsx lines 70-76)
RedirectAfterLoginEffect(u, w) ==
    IF u # NoUser /\ w.ss.redirectAfterLogin # None
    THEN Assign([w EXCEPT !.ss.redirectAfterLogin = None], w.ss.redirectAfterLogin)
    ELSE w

\* the effect on [user?.contactInfoCompleted] (App.jsx lines 79-85)
RedirectAfterContactInfoEffect(u, w) ==
    IF u # NoUser /\ ContactInfoCompleted(u) /\ w.ss.redirectAfterContactInfo # None
    THEN Assign([w EXCEPT !.ss.redirectAfterContactInfo = None], w.ss.redirectAfterContactInfo)
    ELSE w

\* the effects of App after a render for a new session user, in source order
Effects(a, u, path, w) ==
    RedirectAfterContactInfoEffect(u,
        RedirectAfterLoginEffect(u, RoleRedirectEffect(a, u, path, w)))

\* handleLogin after `await login(...)` returned success (App.jsx lines 101-108,
\* later App module lines 162-173)
handleLogin(a, u, w) ==
    IF w.ss.redirectAfterLogin # None
    THEN Assign([w EXCEPT !.ss.redirectAfterLogin = None], w.ss.redirectAfterLogin)
    ELSE IF a = "AppByRole" THEN Assign(w, getDefaultPathForRole(u.role))
    ELSE w

Window == [href |-> href, navs |-> navs, ss |-> sessionStorage]

WindowDone(w) ==
    /\ href' = w.href
    /\ navs' = w.navs
    /\ sessionStorage' = w.ss

NoEvent == [event |-> "none", redirect |-> None]

\* the document at `path` is loaded: AuthProvider restores the session user
\* while App shows the loading screen, then the routes render
Load(path) ==
    /\ pathname' = path
    /\ href' = None
    /\ navs' = <<>>
    /\ outcome' = NoOutcome
    /\ chain' = <<>>
    /\ since' = [event |-> "load", redirect |-> sessionStorage.redirectAfterLogin]
    /\ appPc' = {"render"}
    /\ UNCHANGED <<app, user, sessionStorage>>
    /\ UNCHANGED notAppVars

\* the user enters an address
Request ==
    /\ appPc = {}
    /\ href = None
    /\ \E path \in AppPaths : Load(path)

\* a hard navigation completes
PageLoad ==
    /\ appPc = {}
    /\ href # None
    /\ Load(href)

\* React renders the routes for the session user and runs App's effects
Render ==
    /\ "render" \in appPc
    /\ LET r == RouteElement(app, user, pathname, sessionStorage)
       IN  /\ outcome' = r.out
           /\ WindowDone(Effects(app, user, pathname, [Window EXCEPT !.ss = r.ss]))
    /\ chain' = <<pathname>>
    /\ appPc' = appPc \ {"render"}
    /\ UNCHANGED <<app, user, pathname, since>>
    /\ UNCHANGED notAppVars

\* the router follows a <Navigate replace /> and renders the route there; the
\* effect on location.pathname runs again
FollowRedirect ==
    /\ "render" \notin appPc
    /\ outcome.to # None
    /\ Len(chain) < MaxChain
    /\ LET r == RouteElement(app, user, outcome.to, sessionStorage)
       IN  /\ outcome' = r.out
           /\ WindowDone(RoleRedirectEffect(app, user, outcome.to, [Window EXCEPT !.ss = r.ss]))
    /\ pathname' = outcome.to
    /\ chain' = Append(chain, outcome.to)
    /\ UNCHANGED <<app, user, appPc, since>>
    /\ UNCHANGED notAppVars

\* login() of the modal on the landing page succeeds: setUser(response.user)
\* (AuthProvider.login line 97); handleLogin resumes and React renders, in
\* the order the React build schedules them
LoginSucceeds ==
    /\ appPc = {}
    /\ href = None
    /\ user = NoUser
    /\ pathname = "/"
    /\ outcome = Children
    /\ \E u \in AppUsers : user' = u
    /\ since' = [event |-> "login", redirect |-> sessionStorage.redirectAfterLogin]
    /\ appPc' = {"handler", "render"}
    /\ UNCHANGED <<app, pathname, sessionStorage, outcome, href, navs, chain>>
    /\ UNCHANGED notAppVars

\* handleLogin resumes after its await
HandleLogin ==
    /\ "handler" \in appPc
    /\ WindowDone(handleLogin(app, user, Window))
    /\ appPc' = appPc \ {"handler"}
    /\ UNCHANGED <<app, user, pathname, outcome, since, chain>>
    /\ UNCHANGED notAppVars

\* AuthProvider.logout (lines 152-165) from a page: setUser(null) and
\* window.location.href = "/"; React renders before the document is replaced
Logout ==
    /\ appPc = {}
    /\ href = None
    /\ user # NoUser
    /\ outcome = Children
    /\ user' = NoUser
    /\ WindowDone(Assign(Window, "/"))
    /\ since' = [event |-> "logout", redirect |-> sessionStorage.redirectAfterLogin]
    /\ appPc' = {"render"}
    /\ UNCHANGED <<app, pathname, outcome, chain>>
    /\ UNCHANGED notAppVars

\* no App in the picture
InitAppIdle ==
    /\ appPc = {}
    /\ navs = <<>>
    /\ since = NoEvent
    /\ chain = <<>>

NextApp ==
    \/ Request
    \/ PageLoad
    \/ Render
    \/ FollowRedirect
    \/ LoginSucceeds
    \/ HandleLogin
    \/ Logout

\* ------------------------------------------------------------------------
\* Specifications
\* ------------------------------------------------------------------------
InitSession ==
    /\ backend = Users
    /\ localStorage = EmptyStorage
    /\ user = NoUser
    /\ loading = TRUE
    /\ loginLoading = FALSE
    /\ href = None
    /\ mountPc = "start"
    /\ pending = [op \in Ops |-> 0]
    /\ last = NoLast

NextSession ==
    \/ CheckAuthStart
    \/ CheckAuthResponse
    \/ LoginStart
    \/ LoginResponse
    \/ RegisterStart
    \/ RegisterResponse
    \/ LogoutStart
    \/ LogoutResponse
    \/ RefreshUser
    \/ ApiCall
    \/ DashboardCall
    \/ Reload

vars == <<backend, sessionVars, pollVars, dashVars, guardVars, channelVars, appVars>>

\* a signed-in user on the campaign form
SignedIn ==
    /\ backend = Users
    /\ localStorage = [access_token |-> "t1", user_info |-> "{id:u1,role:user}", user_id |-> "u1"]
    /\ user = [id |-> "u1", role |-> "user"]
    /\ loading = FALSE
    /\ loginLoading = FALSE
    /\ href = None
    /\ mountPc = "done"
    /\ pending = [op \in Ops |-> 0]
    /\ last = NoLast

InitSessionSpec ==
    InitSession /\ InitPoll /\ InitDashIdle /\ InitGuardIdle /\ InitChannelIdle /\ InitAppIdle

SpecSession == InitSessionSpec /\ [][NextSession]_vars

InitPollSpec ==
    SignedIn /\ InitPoll /\ InitDashIdle /\ InitGuardIdle /\ InitChannelIdle /\ InitAppIdle

SpecPoll == InitPollSpec /\ [][NextPoll]_vars

\* the runs of the status polling in which every status request is answered
NextStatus ==
    \/ HandleSubmit
    \/ PollTick
    \/ PollResponse
    \/ NavigateTimer

SpecStatus == InitPollSpec /\ [][NextStatus]_vars

\* an owner on the dashboard
SignedInOwner ==
    /\ backend = Users
    /\ \E token \in {"t1", None} :
          localStorage = [access_token |-> token, user_info |-> "{role:owner}", user_id |-> None]
    /\ user = [id |-> None, role |-> "owner"]
    /\ loading = FALSE
    /\ loginLoading = FALSE
    /\ href = None
    /\ mountPc = "done"
    /\ pending = [op \in Ops |-> 0]
    /\ last = NoLast

InitDashSpec ==
    SignedInOwner /\ InitPoll /\ InitDash /\ InitGuardIdle /\ InitChannelIdle /\ InitAppIdle

SpecDash == InitDashSpec /\ [][NextDash]_vars

\* the dashboard with what the browser does by itself: requests are answered,
\* time passes, effects and timers run; the user's clicks are not forced
SpecDashLive ==
    /\ InitDashSpec
    /\ [][NextDash]_vars
    /\ WF_vars(MountEffect)
    /\ WF_vars(AnalyticsDone)
    /\ WF_vars(SupportDone)
    /\ WF_vars(ClockTick)
    /\ WF_vars(NotificationTimer)

\* the session against a backend that also serves a role the client does not
\* know, with components that call updateUser
InitRoleSpec ==
    /\ backend = Users \cup OddUsers
    /\ localStorage = EmptyStorage
    /\ user = NoUser
    /\ loading = TRUE
    /\ loginLoading = FALSE
    /\ href = None
    /\ mountPc = "start"
    /\ pending = [op \in Ops |-> 0]
    /\ last = NoLast
    /\ InitPoll
    /\ InitDashIdle
    /\ InitGuardIdle
    /\ InitChannelIdle
    /\ InitAppIdle

NextRole ==
    \/ NextSession
    \/ UpdateUser

SpecRole == InitRoleSpec /\ [][NextRole]_vars

\* the session with the components that call the ApiService methods that have
\* a catch block of their own
NextService == NextSession \/ DefaultingCall

SpecService == InitSessionSpec /\ [][NextService]_vars

\* a page of either App module, loaded and past its mount check, for any user
InitGuardSpec ==
    /\ backend = Users
    /\ app \in Apps
    /\ user \in GuardUsers \cup {NoUser}
    /\ localStorage = EmptyStorage
    /\ loading = FALSE
    /\ loginLoading = FALSE
    /\ href = None
    /\ mountPc = "done"
    /\ pending = [op \in Ops |-> 0]
    /\ last = NoLast
    /\ pathname = "/"
    /\ props = NoProps
    /\ sessionStorage = EmptySession
    /\ outcome = NoOutcome
    /\ InitPoll
    /\ InitDashIdle
    /\ InitChannelIdle
    /\ InitAppIdle

\* a page with or without a stored access token, no channel opened yet
InitChannelSpec ==
    /\ backend = Users
    /\ \E token \in {"t1", None} :
          localStorage = [access_token |-> token, user_info |-> None, user_id |-> None]
    /\ user = NoUser
    /\ loading = FALSE
    /\ loginLoading = FALSE
    /\ href = None
    /\ mountPc = "done"
    /\ pending = [op \in Ops |-> 0]
    /\ last = NoLast
    /\ InitPoll
    /\ InitDashIdle
    /\ InitGuardIdle
    /\ InitChannelIdle
    /\ InitAppIdle

SpecChannel == InitChannelSpec /\ [][NextChannel]_vars

SpecGuard == InitGuardSpec /\ [][NextGuard]_vars

\* a fresh tab of either App module: nobody signed in, nothing remembered
InitAppSpec ==
    /\ backend = Users
    /\ app \in Apps
    /\ user = NoUser
    /\ localStorage = EmptyStorage
    /\ loading = FALSE
    /\ loginLoading = FALSE
    /\ href = None
    /\ mountPc = "done"
    /\ pending = [op \in Ops |-> 0]
    /\ last = NoLast
    /\ pathname = "/"
    /\ props = NoProps
    /\ sessionStorage = EmptySession
    /\ outcome = NoOutcome
    /\ appPc = {"render"}
    /\ navs = <<>>
    /\ since = [event |-> "load", redirect |-> None]
    /\ chain = <<>>
    /\ InitPoll
    /\ InitDashIdle
    /\ InitChannelIdle

SpecApp == InitAppSpec /\ [][NextApp]_vars

\* ------------------------------------------------------------------------
\* Claims on the session (SpecSession)
\* ------------------------------------------------------------------------
Is401(ans) == ans.kind = "http" /\ ans.status = 401

HasTokenAndUser(ans) ==
    ans.kind = "ok" /\ ans.access_token \notin {None, ""} /\ ans.user # NoUser

\* C5: a login answered with HTTP 401 returns success false with exactly the
\* invalid-credentials message, whatever the body of the response.
C5_Login401Message ==
    (last.op = "login" /\ Is401(last.ans))
        => (~last.result.success /\ last.result.error = Msg401)

\* C6: a login whose response carries both access_token and user returns
\* {success: true, user}, leaves the response's token in storage and the
\* response's user as the session user.
C6_LoginSuccess ==
    (last.op = "login" /\ HasTokenAndUser(last.ans))
        => /\ last.result.success
           /\ ~last.result.threw
           /\ last.result.user = last.ans.user
           /\ localStorage["access_token"] = last.ans.access_token
           /\ user = last.ans.user

\* a login succeeded for a user without id while another token was stored before
C6_Witness ==
    /\ last.op = "login"
    /\ HasTokenAndUser(last.ans)
    /\ last.ans.access_token = "t2"
    /\ last.ans.user.id = None
    /\ localStorage["user_id"] = "u1"

\* C7: a login or register call that does not succeed returns without throwing
\* and leaves storage and the session user as they were before its answer.
C7_FailureLeavesSession ==
    [][ ( /\ last'.op \in {"login", "register"}
          /\ pending'[last'.op] < pending[last'.op]
          /\ ~last'.result.success )
        => ( /\ ~last'.result.threw
             /\ localStorage' = localStorage
             /\ user' = user ) ]_vars

\* C8: a session operation (login, register, logout, mount-time verification,
\* the 401 handler of ApiService) that finds the access token and the cached
\* user record both present or both absent leaves them both present or both
\* absent.
Paired(ls) == (ls["access_token"] = None) <=> (ls["user_info"] = None)

C8_TokenAndUserTogether ==
    [][ ( /\ last'.op \in {"login", "register", "logout", "checkAuthStatus", "apiService"}
          /\ localStorage' # localStorage
          /\ Paired(localStorage) )
        => Paired(localStorage') ]_vars

C10_LogoutAlwaysAnonymous ==
    (last.op = "logout")
        => /\ ~last.result.threw
           /\ user = NoUser
           /\ localStorage = EmptyStorage
           /\ href = "/"

\* the second of two logouts in a row, its notification failing on the network
C10_Witness ==
    /\ last.op = "logout"
    /\ last.again
    /\ last.ans.kind = "network"

\* ------------------------------------------------------------------------
\* Claims on the status polling (SpecPoll)
\* ------------------------------------------------------------------------
\* the step starts a status request
PollIssued == Len(inflight') > Len(inflight)

\* C1: once 10 consecutive status requests of the campaign being processed
\* have failed, no further status request is issued for it.
C1_NoEleventhPoll ==
    [][ (processingCampaignId # 0 /\ failStreak >= StatusErrorLimit) => ~PollIssued ]_vars

\* C2: once a status with is_complete = true is the local CampaignStatus, no
\* status request is issued and no response changes the CampaignStatus (until
\* another campaign is submitted).
C2_CompleteIsFinal ==
    [][ (campaignStatus.is_complete /\ nextCampaign' = nextCampaign)
        => (campaignStatus' = campaignStatus /\ ~PollIssued) ]_vars

\* ------------------------------------------------------------------------
\* Claims about OwnerDashboard
\* ------------------------------------------------------------------------
\* the newest batch came from a forced refresh and batch b is an earlier one
Superseded(b) == lastForced /\ b < nBatches

CallState == <<abortControllerRef, aborted, isLoadingRef, sinceLastFetch, dashLoading,
               dashError, batches, nBatches, lastForced, localStorage, href>>

C11_RefreshFailureKeepsSession ==
    [][ ( /\ last'.op = "refreshUser"
          /\ last'.ans \in Failures
          /\ ~Is401(last'.ans) )
        => ( /\ last'.result.user = NoUser
             /\ ~last'.result.threw
             /\ user' = user
             /\ localStorage' = localStorage ) ]_vars

\* a signed-in session whose refreshUser() was answered 500
C11_Witness ==
    /\ last.op = "refreshUser"
    /\ last.ans.kind = "http"
    /\ last.ans.status = 500
    /\ user # NoUser
    /\ localStorage["access_token"] # None

\* C12: a page load leaves Checking (loading) once, by its mount-time check:
\* without a stored token straight to Anonymous and without a request; with
\* one, to Authenticated(user) when /api/auth/me succeeds and otherwise to
\* Anonymous with the access token and the user id removed.
C12_MountCheck ==
    [][ /\ (loading /\ ~loading') => (mountPc # "done" /\ mountPc' = "done")
        /\ (~loading /\ loading') => mountPc' = "start"
        /\ (mountPc = "start" /\ mountPc' = "done")
              => ( /\ localStorage["access_token"] = None
                   /\ user' = NoUser
                   /\ ~loading'
                   /\ last' = last )
        /\ (mountPc = "start" /\ localStorage["access_token"] # None)
              => mountPc' \in {"start", "checking"}
        /\ (mountPc = "checking" /\ mountPc' = "done")
              => ( /\ ~loading'
                   /\ last'.op = "checkAuthStatus"
                   /\ IF last'.ans.kind = "ok"
                      THEN user' = last'.ans.user /\ user' # NoUser
                      ELSE /\ user' = NoUser
                           /\ localStorage'["access_token"] = None
                           /\ localStorage'["user_id"] = None ) ]_vars

\* a page loaded with a stored token whose verification failed on the network
C12_Witness ==
    /\ mountPc = "done"
    /\ last.op = "checkAuthStatus"
    /\ last.ans.kind = "network"
    /\ last.atCatch.token # None
    /\ user = NoUser
    /\ ~loading
    /\ localStorage["access_token"] = None

\* ------------------------------------------------------------------------
\* Claims on ProtectedRoute (SpecGuard)
\* ------------------------------------------------------------------------
\* the role check of the guard lets the user through
PassesRoleCheck(u, pr) == pr.allowedRoles = {} \/ u.role \in pr.allowedRoles

\* C13: a signed-in user whose role is not among the non-empty allowedRoles of
\* the route is redirected to the default path of that role: /owner for
\* owner, /admin for admin, /dashboard for any other role.
C13_DeniedRoleGoesToRoleDefault ==
    (outcome.rendered /\ user # NoUser /\ ~PassesRoleCheck(user, props))
        => outcome = Navigate(CASE user.role = "owner" -> "/owner"
                                [] user.role = "admin" -> "/admin"
                                [] OTHER -> "/dashboard")

\* C14: without a user the guard redirects to "/" and remembers the attempted
\* path as redirectAfterLogin, whatever the route's props and path.
C14_AnonymousGoesToLanding ==
    (outcome.rendered /\ user = NoUser)
        => (outcome = Navigate("/") /\ sessionStorage.redirectAfterLogin = pathname)

\* nobody signed in, at /contact-info, on a route restricted to admin that
\* requires contact info
C14_Witness ==
    /\ outcome.rendered
    /\ user = NoUser
    /\ pathname = "/contact-info"
    /\ props = [allowedRoles |-> {"admin"}, requiresContactInfo |-> TRUE]
    /\ sessionStorage.redirectAfterLogin = "/contact-info"

\* C15: a signed-in user who passes the role check of a route that requires
\* contact info, and has not completed it, is redirected to /contact-info with
\* the current path remembered, except at /contact-info itself, where the
\* children render and nothing is stored.
C15_ContactInfoRequired ==
    [][ ( /\ outcome'.rendered
          /\ user' # NoUser
          /\ PassesRoleCheck(user', props')
          /\ props'.requiresContactInfo
          /\ ~ContactInfoCompleted(user') )
        => IF pathname' # "/contact-info"
           THEN /\ outcome' = Navigate("/contact-info")
                /\ sessionStorage' =
                      [sessionStorage EXCEPT !.redirectAfterContactInfo = pathname']
           ELSE /\ outcome' = Children
                /\ sessionStorage' = sessionStorage ]_vars

\* an admin without contact info sent from /form-submitter to /contact-info
C15_Witness ==
    /\ outcome = Navigate("/contact-info")
    /\ user # NoUser
    /\ user.role = "admin"
    /\ props = [allowedRoles |-> {"admin", "owner"}, requiresContactInfo |-> TRUE]
    /\ pathname = "/form-submitter"
    /\ sessionStorage.redirectAfterContactInfo = "/form-submitter"

\* ------------------------------------------------------------------------
\* Claims on the roles a session holds (SpecRole)
\* ------------------------------------------------------------------------
\* C16: the role of the user a session holds is always one of user, admin,
\* owner, whatever role the record had that login, register, the current-user
\* request or updateUser delivered.
C16_RoleIsEnumerated ==
    user # NoUser => user.role \in {"user", "admin", "owner"}

\* ------------------------------------------------------------------------
\* Claims on the live status channels (SpecChannel)
\* ------------------------------------------------------------------------
\* the step opens a channel: connectWebSocket is called or the hook's effect runs
ChannelOpened == wsLog'.opens > wsLog.opens

\* the step handles an incoming message that parses as JSON
MessageHandled == wsLog'.received > wsLog.received /\ wsLog'.lastReceived # NoMessage

\* C17: opening a channel while no access token is stored constructs no
\* WebSocket, calls the error callback in the same step and starts no ping
\* interval.
C17_NoTokenNoSocket ==
    [][ (ChannelOpened /\ localStorage["access_token"] = None)
        => ( /\ wsLog'.constructed = wsLog.constructed
             /\ wsLog'.errors = wsLog.errors + 1
             /\ ~ws'.pingInterval ) ]_vars

\* C18: a parsed message of type connection, pong or keepalive reaches no
\* consumer and changes no state; one of any other type reaches the consumer
\* once, as received.
C18_MessageDispatch ==
    [][ MessageHandled
        => IF wsLog'.lastReceived.type \in {"connection", "pong", "keepalive"}
           THEN /\ wsLog'.delivered = wsLog.delivered
                /\ hook' = hook
                /\ ws' = ws
           ELSE \/ /\ wsLog'.delivered = wsLog.delivered + 1
                   /\ wsLog'.lastDelivered = wsLog'.lastReceived
                   /\ hook' = hook
                \/ /\ wsLog'.delivered = wsLog.delivered
                   /\ hook'.stats = wsLog'.lastReceived ]_vars

\* C19: once closeWebSocket(ws) has returned, the ping interval is cancelled,
\* the transport is closing or closed, no ping is sent and no message reaches
\* the consumer.
C19_CloseIsFinal ==
    [][ ws.closeCalled
        => ( /\ ~ws.pingInterval
             /\ ws.readyState \in {"CLOSING", "CLOSED"}
             /\ wsLog'.pings = wsLog.pings
             /\ wsLog'.delivered = wsLog.delivered ) ]_vars

FinalStatuses == {"COMPLETED", "FAILED", "STOPPED"}

\* the delayed navigation of an earlier completion fires and unmounts the page
TimerNavigates == navTimer # 0 /\ navTimer' = 0

\* the interval of the status polling is cleared in this step, the page
\* not being unmounted by the timer
PollingStops == statusInterval.active /\ ~statusInterval'.active /\ ~TimerNavigates

\* the completion branch of the status the step applied was taken
CompletionBranch ==
    CASE campaignStatus'.status = "COMPLETED" -> success' /\ navTimer' # 0
      [] campaignStatus'.status = "FAILED" -> error' # None
      [] campaignStatus'.status = "STOPPED" -> page' = "campaign"
      [] OTHER -> FALSE

TaxonomyMessage(ans) ==
    CASE ans.kind = "network" ->
            "Cannot connect to server. Please ensure the backend is running on http://127.0.0.1:8000"
      [] ans.kind = "http" /\ ans.status = 401 -> Msg401
      [] ans.kind = "http" /\ ans.status = 409 ->
            "This email is already registered. Please login instead."
      [] ans.kind = "http" /\ ans.status = 500 -> "Server error. Please try again in a moment."
      [] OTHER -> None

\* C22: a login or register call that failed on a network failure, a 409 or a
\* 500 returns the taxonomy message of that class as its error, with or
\* without a body in the error response.
C22_FailureMessageIsTaxonomy ==
    ( /\ last.op \in {"login", "register"}
      /\ \/ last.ans.kind = "network"
         \/ last.ans.kind = "http" /\ last.ans.status \in {409, 500} )
        => (~last.result.success /\ last.result.error = TaxonomyMessage(last.ans))

\* ------------------------------------------------------------------------
\* Claims on the ApiService methods (SpecService)
\* ------------------------------------------------------------------------
ServiceMethods == DefaultingMethods \cup {"apiService"}

\* C23: a call of an ApiService method whose one request failed (network
\* failure or error response) is rejected to its caller, never returned from
\* normally.
C23_FailureIsRejected ==
    (last.op \in ServiceMethods /\ last.ans.kind # "ok") => last.result.threw

\* ------------------------------------------------------------------------
\* Claims on the liveness probe of the channel (SpecChannel)
\* ------------------------------------------------------------------------
\* the step cancels the probe timer
ProbeCancelled == ws.pingInterval /\ ~ws'.pingInterval

\* C24: the step that opens the channel sends a ping, a tick of the probe
\* timer on an open connection sends a ping, and the probe timer is cancelled
\* only by the teardown or once the connection is closing or closed, never
\* while it is connecting or open.
C24_ProbeWhileOpen ==
    [][ /\ (ws.readyState = "CONNECTING" /\ ws'.readyState = "OPEN")
            => wsLog'.pings = wsLog.pings + 1
        /\ ProbeCancelled
            => (ws'.closeCalled \/ ws.readyState \in {"CLOSING", "CLOSED"}) ]_vars

\* ------------------------------------------------------------------------
\* Claims on the navigation after login and logout (SpecApp)
\* ------------------------------------------------------------------------
\* C25: when a path was remembered at the moment a login succeeded, then once
\* handleLogin and the effects have run the pending navigation goes to that
\* path and the remembered path is gone from sessionStorage.
C25_LoginGoesToRememberedPath ==
    (since.event = "login" /\ since.redirect # None /\ appPc = {})
        => /\ href = since.redirect
           /\ sessionStorage.redirectAfterLogin = None

\* the paths of the chain are all different
NoRepeat(seq) == \A i, j \in 1..Len(seq) : i # j => seq[i] # seq[j]

\* C29: the redirects of the guard, the index route and RoleDashboard, followed
\* from any requested path for any user, never come back to a path already
\* rendered, and a page is rendered after at most two redirects.
C29_RedirectsTerminate ==
    /\ NoRepeat(chain)
    /\ Len(chain) <= 3
    /\ Len(chain) = 3 => outcome.to = None

\* an owner who asked for /dashboard was let through by the guard, redirected
\* by RoleDashboard and let through by the guard of /owner
C29_Witness ==
    /\ app = "AppByRole"
    /\ user # NoUser
    /\ user.role = "owner"
    /\ chain = <<"/dashboard", "/owner">>
    /\ outcome = Children

\* C30: the render that follows logout() stores no post-login path: the
\* remembered path is the same after it as before.
C30_LogoutRemembersNothing ==
    [][ (since.event = "logout" /\ "render" \in appPc)
        => sessionStorage'.redirectAfterLogin = sessionStorage.redirectAfterLogin ]_vars

\* ------------------------------------------------------------------------
\* Claims on the requests of the status polling (SpecPoll)
\* ------------------------------------------------------------------------
\* C26: at most one status request is outstanding at any time (so that the
\* answers are applied in the order of the requests).
C26_OneOutstandingPoll == Len(inflight) <= 1

\* ------------------------------------------------------------------------
\* Claims on the period of the dashboard (SpecDashLive)
\* ------------------------------------------------------------------------
\* the dashboard is on screen with a stored token and no navigation under way
Watching ==
    /\ dashPc = "ready"
    /\ href = None
    /\ localStorage["access_token"] \notin {None, ""}

\* the data on screen was fetched for the period
Displayed(period) == dashboard.days = getDaysFromPeriod(period)

\* C27: while the dashboard stays on screen with a period selected, data
\* fetched for that period is eventually displayed (unless the period is
\* changed again, the page is left or the session ends first).
C27_SelectedPeriodEventuallyShown ==
    \A period \in Periods :
        (selectedPeriod = period /\ Watching)
            ~> (Displayed(period) \/ selectedPeriod # period \/ ~Watching)

\* ------------------------------------------------------------------------
\* Claims on the state useCampaignWebSocket returns (SpecChannel)
\* ------------------------------------------------------------------------
\* C28: the state the hook returns describes the socket of the current
\* campaignId: connected is true while that socket is open and only while it
\* is open or closing, and stats, when set, is a message that socket delivered.
C28_HookStateOfCurrentCampaign ==
    /\ hook.readyState = "OPEN" => hook.connected
    /\ hook.connected => hook.readyState \in {"OPEN", "CLOSING"}
    /\ hook.stats # NoMessage => hook.statsFor = hook.campaignId

====
